---- MODULE Spec2Model ----
(***************************************************************************)
(* Room-based multiplayer game sessions of backend/main.py: GameManager    *)
(* (active_games, active_connections, connect, disconnect, get_board,      *)
(* broadcast) and the coroutine websocket_endpoint, one per connection.    *)
(*                                                                         *)
(* The coroutines run on one asyncio event loop: the code between two      *)
(* `await`s of a coroutine is one atomic step, and at every `await` any    *)
(* other coroutine may run.  A send_text hands the text to the connection  *)
(* when it is called (texts of one connection keep the order of the        *)
(* calls) and the calling coroutine resumes in a later step.               *)
(*                                                                         *)
(* Also the module state of two routers: recent_puzzles of                 *)
(* routers/puzzles.py (get_random_puzzle) and pgn_sessions of              *)
(* routers/pgn.py (upload_pgn, cleanup_old_sessions, delete_session).      *)
(* Each has its own specification; the three parts share no state.         *)
(***************************************************************************)
EXTENDS Naturals, Sequences, FiniteSets

\* ------------------------------------------------------------------ bounds
NumSessions == 2
NumRooms == 2
MaxSubmits == 3
NumPuzzleIds == 5                   \* length of the PUZZLE_IDS list of the model
MaxUploads == 3                     \* PGN sessions ever created
MaxTime == 5                        \* last reading of the clock
TicksPerHour == 2                   \* clock readings per hour

Sessions == 1..NumSessions          \* the WebSocket objects, one per coroutine
RoomIds == 1..NumRooms              \* the game_id strings clients connect with
NoObj == 0                          \* a key absent from a dict / no reference
ObjIds == 1..(NumSessions + NumRooms)  \* identities of Board and list objects

\* --------------------------------------------------- chess.Board, restricted
\* The rules engine (python-chess) on the squares the submitted moves touch.
Squares == {"e2", "e4", "e5", "e7", "g1", "f3"}

White(p) == p \in {"P", "N"}
Black(p) == p \in {"p"}

StartingPosition ==
    [at |-> [q \in Squares |->
                CASE q = "e2" -> "P"
                  [] q = "e7" -> "p"
                  [] q = "g1" -> "N"
                  [] OTHER -> "-"],
     turn |-> "w", halfmove |-> 0, fullmove |-> 1]

\* The texts a client sends.
RawMoves == {"e2e4", "e7e5", "g1f3", "e2e5", "zz99"}

\* chess.Move.from_uci: the texts that name two squares parse, the others
\* raise ValueError (here: are outside the domain).
UciTable ==
    [d \in {"e2e4", "e7e5", "g1f3", "e2e5"} |->
        CASE d = "e2e4" -> [from |-> "e2", to |-> "e4"]
          [] d = "e7e5" -> [from |-> "e7", to |-> "e5"]
          [] d = "g1f3" -> [from |-> "g1", to |-> "f3"]
          [] d = "e2e5" -> [from |-> "e2", to |-> "e5"]]

Parses(d) == d \in DOMAIN UciTable
FromUci(d) == UciTable[d]

\* How each piece can go between the squares of the model: a pawn's double
\* step from its home rank, the knight's jump.  No pawn goes three ranks.
Patterns == {<<"P", "e2", "e4">>, <<"p", "e7", "e5">>, <<"N", "g1", "f3">>}

\* Board.is_legal
IsLegal(pos, m) ==
    LET p == pos.at[m.from]
    IN /\ IF pos.turn = "w" THEN White(p) ELSE Black(p)
       /\ <<p, m.from, m.to>> \in Patterns
       /\ pos.at[m.to] = "-"

\* Board.push
Push(pos, m) ==
    LET p == pos.at[m.from]
    IN [at |-> [pos.at EXCEPT ![m.from] = "-", ![m.to] = p],
        turn |-> IF pos.turn = "w" THEN "b" ELSE "w",
        halfmove |-> IF p \in {"P", "p"} THEN 0 ELSE pos.halfmove + 1,
        fullmove |-> IF pos.turn = "b" THEN pos.fullmove + 1 ELSE pos.fullmove]

\* Board.fen: placement, side to move, halfmove clock, fullmove number
\* (castling rights and the en-passant square never change for these moves).
Fen(pos) == <<"fen", pos.at, pos.turn, pos.halfmove, pos.fullmove>>

IsFen(t) == t[1] = "fen"
FenPly(t) == 2 * (t[5] - 1) + (IF t[3] = "b" THEN 1 ELSE 0)

ErrInvalidMove(d) == <<"error:", "Invalid move", d>>
ErrInvalidUci(d) == <<"error:", "Invalid UCI format", d>>
IsError(t) == t[1] = "error:"

\* -------------------------------------------------------------------- state
VARIABLES
    active_games,        \* GameManager.active_games: game_id -> Board object
    active_connections,  \* GameManager.active_connections: game_id -> list object
    boards,              \* the Board objects: identity -> position
    lists,               \* the list objects: identity -> sequence of websockets
    pc,                  \* where each websocket_endpoint coroutine is suspended
    game_id,             \* its game_id parameter
    board,               \* its local `board`
    iter,                \* broadcast's list iterator: [list, idx]
    conn,                \* broadcast's loop variable `conn`, while a send is pending
    message,             \* broadcast's `message`
    open,                \* whether the client's end of the connection is open
    stalled,             \* the connections whose client has stopped reading
    inbox,               \* the texts handed to each connection, in order
    data,                \* its local `data`: the text received last
    nsubmits,            \* number of texts submitted so far
    accepted,            \* history: the moves pushed on each Board object
    vacated,             \* history: the game_ids whose last subscriber left
                         \* after moves were pushed, not connected to since
    rejoined,            \* history: the sessions that connected with a
                         \* game_id that was vacated
    recent_puzzles,      \* routers/puzzles.py: the module's list recent_puzzles
    puzzle_id,           \* get_random_puzzle's `puzzle_id` of the last call
    shown,               \* history: the ids selected since the last reset
    was_reset,           \* history: the last call reset recent_puzzles
    pgn_sessions,        \* routers/pgn.py: the dict, as its set of entries
    now,                 \* what datetime.now() reads
    uploads,             \* the session ids (uuid4) made so far
    expired,             \* cleanup_old_sessions' `expired` of the last call
    fanout               \* history: per coroutine, its current or last fan-out:
                         \* the subscribers with an open connection all through
                         \* it, the recipients sent to, those whose send failed,
                         \* the sessions that disconnected during it

\* The state of the two routers, and the state of the game sessions.
routerVars ==
    <<recent_puzzles, puzzle_id, shown, was_reset, pgn_sessions, now, uploads,
      expired>>

gameVars ==
    <<active_games, active_connections, boards, lists, pc, game_id, board,
      iter, conn, message, open, stalled, inbox, data, nsubmits, accepted,
      vacated, rejoined, fanout>>

vars == <<gameVars, routerVars>>

NoIter == [list |-> NoObj, idx |-> 0]
NoMessage == <<"none">>
NoData == "none"
NoFanout ==
    [active |-> FALSE, through |-> {}, sent |-> <<>>, failed |-> {}, left |-> {}]

Live(s) == pc[s] \in {"sendInit", "recv", "sendErr", "bcast"}
Terminated(s) == pc[s] \in {"closed", "crashed"}

Range(f) == {f[x] : x \in DOMAIN f}

Init ==
    /\ active_games = [g \in RoomIds |-> NoObj]
    /\ active_connections = [g \in RoomIds |-> NoObj]
    /\ boards = [o \in ObjIds |-> StartingPosition]
    /\ lists = [o \in ObjIds |-> <<>>]
    /\ pc = [s \in Sessions |-> "idle"]
    /\ game_id = [s \in Sessions |-> NoObj]
    /\ board = [s \in Sessions |-> NoObj]
    /\ iter = [s \in Sessions |-> NoIter]
    /\ conn = [s \in Sessions |-> NoObj]
    /\ message = [s \in Sessions |-> NoMessage]
    /\ open = [s \in Sessions |-> FALSE]
    /\ stalled = {}
    /\ inbox = [s \in Sessions |-> <<>>]
    /\ data = [s \in Sessions |-> NoData]
    /\ nsubmits = 0
    /\ accepted = [o \in ObjIds |-> <<>>]
    /\ vacated = {}
    /\ rejoined = {}
    /\ fanout = [s \in Sessions |-> NoFanout]
    /\ recent_puzzles = <<>>
    /\ puzzle_id = NoObj
    /\ shown = {}
    /\ was_reset = FALSE
    /\ pgn_sessions = {}
    /\ now = 0
    /\ uploads = 0
    /\ expired = {}

\* ---------------------------------------------------------------- helpers
\* Objects some dict or some running coroutine still refers to.
Referenced ==
    Range(active_games) \cup Range(active_connections)
        \cup {board[s] : s \in {t \in Sessions : Live(t)}}
        \cup {iter[s].list : s \in {t \in Sessions : pc[t] = "bcast"}}

\* chess.Board() / []: a new object takes an identity nothing refers to.
NewObj == CHOOSE o \in ObjIds : /\ o \notin Referenced
                                /\ \A o2 \in ObjIds : o2 \notin Referenced => o <= o2

\* list.remove(x): drops the first occurrence of x.
RECURSIVE RemoveFirst(_, _)
RemoveFirst(q, x) ==
    IF q = <<>> THEN <<>>
    ELSE IF Head(q) = x THEN Tail(q)
    ELSE <<Head(q)>> \o RemoveFirst(Tail(q), x)

InList(q, x) == \E i \in 1..Len(q) : q[i] = x

\* Handing a text to connection c: a closed connection takes nothing.
Deliver(box, c, t) == IF open[c] THEN [box EXCEPT ![c] = Append(@, t)] ELSE box

\* ------------------------------------------------- GameManager.disconnect
\* variants of the emptiness test: one subscriber too early, and never
EmptiedEarly(q) == Len(q) <= 1
EmptiedNever(q) == FALSE

\* `len(self.active_connections[game_id]) == 0`
Emptied(q) == Len(q) = 0

\* variant of the remove: the first handle of the list goes
ListAfterPop(s, g) == Tail(lists[active_connections[g]])

\* The list object of g after disconnect's remove (unchanged if s is not in it).
ListAfterLeave(s, g) ==
    LET q == lists[active_connections[g]]
    IN IF InList(q, s) THEN RemoveFirst(q, s) ELSE q

\* variant of the remove: the list is left as it is
DisconnectListsKeep(s, g) == lists

\* disconnect(websocket, game_id) on the dicts and the list objects.
DisconnectLists(s, g) ==
    IF active_connections[g] = NoObj THEN lists
    ELSE [lists EXCEPT ![active_connections[g]] = ListAfterLeave(s, g)]

DisconnectConnections(s, g) ==
    IF active_connections[g] # NoObj /\ Emptied(ListAfterLeave(s, g))
    THEN [active_connections EXCEPT ![g] = NoObj]
    ELSE active_connections

\* variant of the teardown: the game is deleted at every disconnect
DisconnectGamesAlways(s, g) == [active_games EXCEPT ![g] = NoObj]

DisconnectGames(s, g) ==
    IF active_connections[g] # NoObj /\ Emptied(ListAfterLeave(s, g))
    THEN [active_games EXCEPT ![g] = NoObj]
    ELSE active_games

\* History: t is no longer a subscriber with an open connection throughout
\* the fan-outs in progress.
DropThrough(t) ==
    [x \in Sessions |->
        IF fanout[x].active
        THEN [fanout[x] EXCEPT !.through = @ \ {t}]
        ELSE fanout[x]]

\* History: t has disconnected while the fan-outs in progress were under way.
Departed(t) ==
    [x \in Sessions |->
        IF fanout[x].active
        THEN [fanout[x] EXCEPT !.through = @ \ {t}, !.left = @ \cup {t}]
        ELSE fanout[x]]

\* The coroutine is over: its locals are gone, and so is what its connection
\* was handed.
EndLocals(s) ==
    /\ game_id' = [game_id EXCEPT ![s] = NoObj]
    /\ board' = [board EXCEPT ![s] = NoObj]
    /\ iter' = [iter EXCEPT ![s] = NoIter]
    /\ conn' = [conn EXCEPT ![s] = NoObj]
    /\ message' = [message EXCEPT ![s] = NoMessage]
    /\ data' = [data EXCEPT ![s] = NoData]
    /\ inbox' = [inbox EXCEPT ![s] = <<>>]
    /\ rejoined' = rejoined \ {s}

\* `except WebSocketDisconnect: manager.disconnect(websocket, game_id)`:
\* the coroutine ends having left its room.
LeaveAndEnd(s) ==
    /\ lists' = DisconnectLists(s, game_id[s])
    /\ active_connections' = DisconnectConnections(s, game_id[s])
    /\ active_games' = DisconnectGames(s, game_id[s])
    /\ pc' = [pc EXCEPT ![s] = "closed"]
    /\ EndLocals(s)
    /\ fanout' = [Departed(s) EXCEPT ![s] = NoFanout]
    /\ vacated' = IF /\ active_connections[game_id[s]] # NoObj
                     /\ Len(ListAfterLeave(s, game_id[s])) = 0
                     /\ accepted[board[s]] # <<>>
                  THEN vacated \cup {game_id[s]} ELSE vacated
    /\ UNCHANGED <<boards, open, stalled, nsubmits, accepted>>
    /\ UNCHANGED routerVars

\* Any other exception leaves websocket_endpoint without a disconnect; the
\* server then closes the connection.
CrashAndEnd(s) ==
    /\ pc' = [pc EXCEPT ![s] = "crashed"]
    /\ open' = [open EXCEPT ![s] = FALSE]
    /\ EndLocals(s)
    /\ fanout' = [DropThrough(s) EXCEPT ![s] = NoFanout]
    /\ UNCHANGED <<active_games, active_connections, boards, lists, stalled,
                   nsubmits, accepted, vacated>>
    /\ UNCHANGED routerVars

\* ---------------------------------------------------- GameManager.connect
\* variant of the creation: what the reused object last held
FreshBoardResidual(o) == boards[o]

\* `chess.Board()`
FreshBoard(o) == StartingPosition

\* variant of the initial text: always the starting position
InitialTextStart(bs, b) == Fen(StartingPosition)

\* `board.fen()` of the initial send, on the board get_board returned
InitialText(bs, b) == Fen(bs[b])

\* variant of the append: the websocket is appended twice
AppendedTwice(q, s) == Append(Append(q, s), s)

\* `self.active_connections[game_id].append(websocket)`
Appended(q, s) == Append(q, s)

\* variant of the registry test: every connect creates
AlwaysCreate(g) == TRUE

\* `game_id not in self.active_games`
NotRegistered(g) == active_games[g] = NoObj

\* websocket_endpoint up to its first send: connect (accept, create the game
\* if game_id is not in active_games, append the websocket), get_board, and
\* the call of send_text(board.fen()).
Connect(s, g) ==
    /\ pc[s] = "idle"
    /\ \A t \in Sessions : t < s => pc[t] # "idle"   \* numbered as they arrive
    /\ LET fresh == NotRegistered(g)
           o == NewObj
           games1 == IF fresh THEN [active_games EXCEPT ![g] = o] ELSE active_games
           conns1 == IF fresh THEN [active_connections EXCEPT ![g] = o]
                     ELSE active_connections
           boards1 == IF fresh THEN [boards EXCEPT ![o] = FreshBoard(o)] ELSE boards
           lists1 == IF fresh THEN [lists EXCEPT ![o] = <<>>] ELSE lists
           lid == conns1[g]
           b == games1[g]
       IN /\ active_games' = games1
          /\ active_connections' = conns1
          /\ boards' = boards1
          /\ accepted' = IF fresh THEN [accepted EXCEPT ![o] = <<>>] ELSE accepted
          /\ game_id' = [game_id EXCEPT ![s] = g]
          /\ vacated' = vacated \ {g}
          /\ rejoined' = IF g \in vacated THEN rejoined \cup {s} ELSE rejoined
          /\ IF lid = NoObj
             THEN \* active_connections[game_id] raises KeyError
                  /\ pc' = [pc EXCEPT ![s] = "crashed"]
                  /\ lists' = lists1
                  /\ UNCHANGED <<board, open, inbox>>
             ELSE /\ lists' = [lists1 EXCEPT ![lid] = Appended(@, s)]
                  /\ board' = [board EXCEPT ![s] = b]
                  /\ open' = [open EXCEPT ![s] = TRUE]
                  /\ inbox' = [inbox EXCEPT ![s] = Append(@, InitialText(boards1, b))]
                  /\ pc' = [pc EXCEPT ![s] = "sendInit"]
    /\ UNCHANGED <<iter, conn, message, stalled, data, nsubmits, fanout>>
    /\ UNCHANGED routerVars

\* --------------------------------------------------- GameManager.broadcast
\* The for loop over the list object lid from iterator position i: the next
\* element, if any, is sent `message` and the coroutine suspends in the
\* send; otherwise broadcast returns and the coroutine waits in receive_text.
\* variant of the iterator's advance: it stays where it is
NextIndexStay(i) == i

\* The list iterator's position after it yielded the element at i.
NextIndex(i) == i + 1

BroadcastFrom(s, lid, i, msg, fo) ==
    IF lid # NoObj /\ i < Len(lists[lid])
    THEN LET c == lists[lid][i + 1]
         IN /\ inbox' = Deliver(inbox, c, msg)
            /\ iter' = [iter EXCEPT ![s] = [list |-> lid, idx |-> NextIndex(i)]]
            /\ conn' = [conn EXCEPT ![s] = c]
            /\ pc' = [pc EXCEPT ![s] = "bcast"]
            /\ fanout' = [fanout EXCEPT ![s] =
                            [fo EXCEPT !.sent = Append(@, c),
                                       !.failed = IF open[c] THEN @ ELSE @ \cup {c}]]
    ELSE /\ inbox' = inbox
         /\ iter' = [iter EXCEPT ![s] = NoIter]
         /\ conn' = [conn EXCEPT ![s] = NoObj]
         /\ pc' = [pc EXCEPT ![s] = "recv"]
         /\ fanout' = [fanout EXCEPT ![s] = [fo EXCEPT !.active = FALSE]]

\* variant of the text sent: the board's position at the time of the send
BroadcastTextCurrent(s) == Fen(boards[board[s]])

\* broadcast's parameter `message`: the string built at the call
BroadcastText(s) == message[s]

\* The send to one connection returned or raised (`except: pass`): next one.
\* A send to a connection whose client has stopped reading does not return.
BroadcastStep(s) ==
    /\ pc[s] = "bcast"
    /\ conn[s] \notin stalled
    /\ BroadcastFrom(s, iter[s].list, iter[s].idx, BroadcastText(s), fanout[s])
    /\ UNCHANGED <<active_games, active_connections, boards, lists, game_id,
                   board, message, open, stalled, data, nsubmits, accepted,
                   vacated, rejoined>>
    /\ UNCHANGED routerVars

\* ------------------------------------------- websocket_endpoint: the loop
\* variants of the legality check: against the position the game started
\* from, and none
LegalAtStart(s, m) == IsLegal(StartingPosition, m)
LegalAlways(s, m) == TRUE

\* variant: each session moves for one side only
LegalOwnSide(s, m) ==
    /\ IsLegal(boards[board[s]], m)
    /\ boards[board[s]].turn = "w" <=> s = 1

\* `board.is_legal(move)` on the coroutine's board
LegalHere(s, m) == IsLegal(boards[board[s]], m)

\* variant: the error text goes to the whole room
ErrorToRoom(s) ==
    {c \in Sessions : InList(lists[active_connections[game_id[s]]], c)}

\* who the error text of a rejected submission is sent to
ErrorRecipients(s) == {s}

Reject(s, err) ==
    /\ inbox' = [c \in Sessions |->
                    IF c \in ErrorRecipients(s) /\ open[c]
                    THEN Append(inbox[c], err) ELSE inbox[c]]
    /\ pc' = [pc EXCEPT ![s] = "sendErr"]
    /\ UNCHANGED <<boards, accepted, message, iter, conn, fanout>>

\* variant of the list broadcast iterates: the list of the first game_id
BroadcastFirstList(s) == active_connections[1]

\* `self.active_connections[game_id]` of broadcast (NoObj: game_id not in it)
BroadcastList(s) == active_connections[game_id[s]]

\* variant of the push: the move is played on a new board
PushedOnStart(s, m) == Push(StartingPosition, m)

\* `board.push(move)` on the coroutine's board: the position it leaves
Pushed(s, m) == Push(boards[board[s]], m)

Accept(s, m) ==
    LET b == board[s]
        newpos == Pushed(s, m)
        lid == BroadcastList(s)
        start == [active |-> TRUE,
                  through |-> IF lid = NoObj THEN {}
                              ELSE {c \in Sessions : InList(lists[lid], c) /\ open[c]},
                  sent |-> <<>>,
                  failed |-> {},
                  left |-> {}]
    IN /\ boards' = [boards EXCEPT ![b] = newpos]
       /\ accepted' = [accepted EXCEPT ![b] = Append(@, m)]
       /\ message' = [message EXCEPT ![s] = Fen(newpos)]
       /\ BroadcastFrom(s, lid, 0, Fen(newpos), start)

\* receive_text returned the text d: parse, check, push and start the
\* broadcast, or send the error text.
Receive(s, d) ==
    /\ pc[s] = "recv"
    /\ open[s]
    /\ nsubmits < MaxSubmits
    /\ nsubmits' = nsubmits + 1
    /\ data' = [data EXCEPT ![s] = d]
    /\ IF ~Parses(d) THEN Reject(s, ErrInvalidUci(d))
       ELSE IF LegalHere(s, FromUci(d)) THEN Accept(s, FromUci(d))
       ELSE Reject(s, ErrInvalidMove(d))
    /\ UNCHANGED <<active_games, active_connections, lists, game_id, board, open,
                   stalled, vacated, rejoined>>
    /\ UNCHANGED routerVars

\* variant: the loop ends after an error text
AfterSendBreak(p) == IF p = "sendErr" THEN "crashed" ELSE "recv"

\* where the coroutine goes when its own send_text returns: `while True`
AfterSend(p) == "recv"

\* The coroutine's own send_text (initial position, error text) returned.
SendDone(s) ==
    /\ pc[s] \in {"sendInit", "sendErr"}
    /\ s \notin stalled
    /\ pc' = [pc EXCEPT ![s] = AfterSend(pc[s])]
    /\ UNCHANGED <<active_games, active_connections, boards, lists, game_id,
                   board, iter, conn, message, open, stalled, inbox, data,
                   nsubmits, accepted, vacated, rejoined, fanout>>
    /\ UNCHANGED routerVars

\* The coroutine's own send_text raised WebSocketDisconnect: the client left.
SendDisconnect(s) ==
    /\ pc[s] \in {"sendInit", "sendErr"}
    /\ ~open[s]
    /\ LeaveAndEnd(s)

\* The coroutine's own send_text raised another exception on the closed
\* connection (RuntimeError, OSError).
SendError(s) ==
    /\ pc[s] \in {"sendInit", "sendErr"}
    /\ ~open[s]
    /\ CrashAndEnd(s)

\* receive_text raised WebSocketDisconnect.
RecvDisconnect(s) ==
    /\ pc[s] = "recv"
    /\ ~open[s]
    /\ LeaveAndEnd(s)

\* receive_text raised another exception (a binary frame has no "text":
\* KeyError).
RecvError(s) ==
    /\ pc[s] = "recv"
    /\ open[s]
    /\ s \notin stalled
    /\ CrashAndEnd(s)

\* The client closes its end of the connection.
ClientClose(s) ==
    /\ Live(s)
    /\ open[s]
    /\ s \notin stalled
    /\ open' = [open EXCEPT ![s] = FALSE]
    /\ fanout' = DropThrough(s)
    /\ UNCHANGED <<active_games, active_connections, boards, lists, pc,
                   game_id, board, iter, conn, message, stalled, inbox, data,
                   nsubmits, accepted, vacated, rejoined>>
    /\ UNCHANGED routerVars

\* The client of s stops reading and never closes: from now on no send to
\* its connection returns.  (The case of one stalled recipient.)
Stall(s) ==
    /\ Live(s)
    /\ open[s]
    /\ stalled = {}
    /\ stalled' = {s}
    /\ UNCHANGED <<active_games, active_connections, boards, lists, pc,
                   game_id, board, iter, conn, message, open, inbox, data,
                   nsubmits, accepted, vacated, rejoined, fanout>>
    /\ UNCHANGED routerVars

Next ==
    \/ \E s \in Sessions, g \in RoomIds : Connect(s, g)
    \/ \E s \in Sessions, d \in RawMoves : Receive(s, d)
    \/ \E s \in Sessions : BroadcastStep(s)
    \/ \E s \in Sessions : SendDone(s)
    \/ \E s \in Sessions : SendDisconnect(s)
    \/ \E s \in Sessions : SendError(s)
    \/ \E s \in Sessions : RecvDisconnect(s)
    \/ \E s \in Sessions : RecvError(s)
    \/ \E s \in Sessions : ClientClose(s)

Spec == Init /\ [][Next]_vars

\* The same program with a client that may stall.
NextStall ==
    \/ Next
    \/ \E s \in Sessions : Stall(s)

SpecStall == Init /\ [][NextStall]_vars

\* ===================================================== routers/puzzles.py
\* `MAX_RECENT = 20`
MAX_RECENT == 20

\* The list PUZZLE_IDS (sixteen distinct ids in the source, none twice).
PUZZLE_IDS == 1..NumPuzzleIds

\* variant of the filter: nothing is filtered out
AvailableAll(recent) == PUZZLE_IDS

\* `[pid for pid in PUZZLE_IDS if pid not in recent_puzzles]`
Available(recent) == {pid \in PUZZLE_IDS : ~InList(recent, pid)}

\* `if len(recent_puzzles) > MAX_RECENT: recent_puzzles.pop(0)`
Trimmed(recent) == IF Len(recent) > MAX_RECENT THEN Tail(recent) ELSE recent

\* get_random_puzzle up to the fetch of the puzzle: filter, reset if nothing
\* is available, random.choice, append, trim.  No await: one step.  What
\* follows in the handler reads puzzle_id and changes no module state.
get_random_puzzle ==
    LET reset == Available(recent_puzzles) = {}
        recent1 == IF reset THEN <<>> ELSE recent_puzzles
        available == IF reset THEN PUZZLE_IDS ELSE Available(recent_puzzles)
    IN \E pid \in available :
          /\ puzzle_id' = pid
          /\ recent_puzzles' = Trimmed(Append(recent1, pid))
          /\ shown' = (IF reset THEN {} ELSE shown) \cup {pid}
          /\ was_reset' = reset
          /\ UNCHANGED <<pgn_sessions, now, uploads, expired>>
          /\ UNCHANGED gameVars

NextPuzzles == get_random_puzzle

SpecPuzzles == Init /\ [][NextPuzzles]_vars

\* ========================================================= routers/pgn.py
\* variant of the age test: a session one hour old is expired
ExpiredAtHour(t, session) == t - session.created_at >= TicksPerHour

\* `now - session["created_at"] > timedelta(hours=1)`
Expired(t, session) == t - session.created_at > TicksPerHour

\* cleanup_old_sessions' list `expired` for the store and the clock reading t
ExpiredOf(store, t) == {session \in store : Expired(t, session)}

\* cleanup_old_sessions: what it leaves of the store
cleanup_old_sessions(store, t) == store \ ExpiredOf(store, t)

\* upload_pgn with at least one game in the file, from the creation of the
\* session: a new uuid4 key, created_at = datetime.now(), then
\* cleanup_old_sessions, which reads the clock again at once.  No await.
upload_pgn ==
    /\ uploads < MaxUploads
    /\ LET session == [session_id |-> uploads + 1, created_at |-> now]
           store == pgn_sessions \cup {session}
       IN /\ expired' = ExpiredOf(store, now)
          /\ pgn_sessions' = cleanup_old_sessions(store, now)
    /\ uploads' = uploads + 1
    /\ UNCHANGED <<recent_puzzles, puzzle_id, shown, was_reset, now>>
    /\ UNCHANGED gameVars

\* delete_session(session_id) for a key of the store
delete_session(session) ==
    /\ session \in pgn_sessions
    /\ pgn_sessions' = pgn_sessions \ {session}
    /\ UNCHANGED <<recent_puzzles, puzzle_id, shown, was_reset, now, uploads,
                   expired>>
    /\ UNCHANGED gameVars

\* Time passes.
Tick ==
    /\ now < MaxTime
    /\ now' = now + 1
    /\ UNCHANGED <<recent_puzzles, puzzle_id, shown, was_reset, pgn_sessions,
                   uploads, expired>>
    /\ UNCHANGED gameVars

NextPgn ==
    \/ upload_pgn
    \/ \E session \in pgn_sessions : delete_session(session)
    \/ Tick

SpecPgn == Init /\ [][NextPgn]_vars

\* ================================================================== claims
Last(q) == q[Len(q)]

\* The position after the moves of ms, from the starting position.
RECURSIVE Replay(_)
Replay(ms) ==
    IF ms = <<>> THEN StartingPosition
    ELSE Push(Replay(SubSeq(ms, 1, Len(ms) - 1)), Last(ms))

\* Each move of ms was legal in the position the moves before it left.
LegalRun(ms) ==
    \A i \in 1..Len(ms) : IsLegal(Replay(SubSeq(ms, 1, i - 1)), ms[i])

\* s is on the subscriber list registered under its game_id, and its board
\* is the one registered there.
Subscribed(s) ==
    /\ game_id[s] # NoObj
    /\ active_connections[game_id[s]] # NoObj
    /\ InList(lists[active_connections[game_id[s]]], s)
    /\ active_games[game_id[s]] = board[s]

\* This step is s receiving a text (it is data'[s]).
Submits(s) ==
    /\ nsubmits' = nsubmits + 1
    /\ pc[s] = "recv"
    /\ pc'[s] # "recv"

\* ... a text that does not parse or is not legal in the room's position.
SubmitsRejected(s) ==
    /\ Submits(s)
    /\ \/ ~Parses(data'[s])
       \/ ~IsLegal(boards[active_games[game_id[s]]], FromUci(data'[s]))

\* C1: the legality check and the application of a move are one step on the
\* room's position: the moves accepted on a board, in the order of their
\* acceptance, are each legal in the position left by the ones before, and
\* the board holds exactly the position they lead to (none lost, none twice).
C1_Linearized ==
    \A o \in ObjIds : LegalRun(accepted[o]) /\ boards[o] = Replay(accepted[o])

\* Two sessions of one room submitted the same move; the first was applied
\* (its fan-out is still in progress), the second met the position it left.
C1_Witness ==
    \E s, t \in Sessions :
        /\ s # t
        /\ board[s] = board[t] /\ board[s] # NoObj
        /\ data[s] = "e2e4" /\ data[t] = "e2e4"
        /\ pc[s] = "bcast" /\ pc[t] = "sendErr"
        /\ accepted[board[s]] = <<FromUci("e2e4")>>

\* C2: the positions a subscriber receives by broadcast (every text after its
\* initial one) arrive in the order in which the moves were applied.
C2_BroadcastOrder ==
    \A s \in Sessions : \A i, j \in 2..Len(inbox[s]) :
        (i < j /\ IsFen(inbox[s][i]) /\ IsFen(inbox[s][j]))
            => FenPly(inbox[s][i]) <= FenPly(inbox[s][j])

\* The last position text in q.
LastFen(q) ==
    LET I == {i \in 1..Len(q) : IsFen(q[i])}
    IN q[CHOOSE i \in I : \A j \in I : j <= i]

Quiescent == \A s \in Sessions : pc[s] \notin {"sendInit", "sendErr", "bcast"}

\* C3: once all pending deliveries have completed, the position every joined
\* subscriber received last is the room's current position.
C3_Converged ==
    Quiescent =>
        \A s \in Sessions :
            (pc[s] = "recv" /\ open[s])
                => LastFen(inbox[s]) = Fen(boards[active_games[game_id[s]]])

\* C4: a finished fan-out has sent to every session that was a subscriber
\* (with its connection open) from its start to its end.
C4_DeliveredToAll ==
    \A s \in Sessions :
        (~fanout[s].active)
            => fanout[s].through \subseteq Range(fanout[s].sent)

\* C5: a rejected submission leaves every position, and the registry of
\* boards, as it was.
C5_RejectKeepsPosition ==
    [][\A s \in Sessions :
        SubmitsRejected(s) => (boards' = boards /\ active_games' = active_games)]_vars

\* Both kinds of rejection have happened in a room whose game has advanced.
C5_Witness ==
    \E s, t \in Sessions :
        /\ pc[s] = "sendErr" /\ data[s] = "zz99"
        /\ pc[t] = "sendErr" /\ data[t] = "e2e5"
        /\ board[s] = board[t]
        /\ accepted[board[s]] # <<>>
        /\ boards[board[s]] = Replay(accepted[board[s]])

\* C6: a rejected submission hands exactly one text, an error text, to the
\* submitter and nothing to any other connection.
C6_ErrorToSenderOnly ==
    [][\A s \in Sessions :
        SubmitsRejected(s) =>
            /\ Len(inbox'[s]) = Len(inbox[s]) + 1
            /\ SubSeq(inbox'[s], 1, Len(inbox[s])) = inbox[s]
            /\ IsError(Last(inbox'[s]))
            /\ \A t \in Sessions \ {s} : inbox'[t] = inbox[t]]_vars

\* A submitter holds its error text while another open subscriber of the
\* same room has received none.
C6_Witness ==
    \E s, t \in Sessions :
        /\ s # t
        /\ pc[s] = "sendErr" /\ IsError(Last(inbox[s]))
        /\ Live(t) /\ open[t] /\ board[t] = board[s]
        /\ \A i \in 1..Len(inbox[t]) : ~IsError(inbox[t][i])

\* What a later submission of s depends on.
RoomView(s) ==
    <<game_id[s], board[s], active_games, active_connections, lists, boards>>

\* C7: a rejected submission leaves its session subscribed and suspended in
\* the send of the error text, with the room as it was; when that send
\* returns on an open connection the session is back in its receive loop,
\* still subscribed, the room again as it was, so that its next submission
\* is handled as if the rejected one had not been made.
C7_UsableAfterReject ==
    [][\A s \in Sessions :
        /\ SubmitsRejected(s) =>
              /\ pc'[s] = "sendErr"
              /\ Subscribed(s)'
              /\ RoomView(s)' = RoomView(s)
        /\ (pc[s] = "sendErr" /\ open[s] /\ pc'[s] # "sendErr") =>
              /\ pc'[s] = "recv"
              /\ Subscribed(s)'
              /\ RoomView(s)' = RoomView(s)]_vars

\* A session got an error text and afterwards the position of its own
\* accepted move, whose fan-out has finished.
C7_Witness ==
    \E s \in Sessions :
        /\ pc[s] = "recv"
        /\ Len(inbox[s]) >= 3
        /\ IsError(inbox[s][2])
        /\ Last(inbox[s]) = Fen(Push(StartingPosition, FromUci("e2e4")))
        /\ data[s] = "e2e4"
        /\ accepted[board[s]] = <<FromUci("e2e4")>>
        /\ ~fanout[s].active /\ s \in Range(fanout[s].sent)

\* A room is registered under g: a board and a non-empty subscriber list.
Registered(g) ==
    /\ active_games[g] # NoObj
    /\ active_connections[g] # NoObj
    /\ lists[active_connections[g]] # <<>>

Unregistered(g) == active_games[g] = NoObj /\ active_connections[g] = NoObj

C8_Inv ==
    /\ \A g \in RoomIds : Registered(g) \/ Unregistered(g)
    /\ \A s \in Sessions : Live(s) => Registered(game_id[s])

\* This step is a disconnect that takes the last handle off g's list.
LeaveEmpties(g) ==
    \E s \in Sessions :
        /\ game_id[s] = g
        /\ pc'[s] = "closed" /\ pc[s] # "closed"
        /\ lists[active_connections[g]] = <<s>>

\* C8: the registry holds a room exactly for the ids whose subscriber list
\* is non-empty, and a room is removed in the step in which a leave empties
\* its list and in no other.
C8_RoomIffSubscribers ==
    /\ []C8_Inv
    /\ [][\A g \in RoomIds :
            Registered(g) => (Unregistered(g)' <=> LeaveEmpties(g))]_vars

\* One room has been torn down after a game was played in it (its board is
\* garbage) while another one is registered.
C8_Witness ==
    /\ \E o \in ObjIds : o \notin Referenced /\ accepted[o] # <<>>
    /\ \E g \in RoomIds : Registered(g)
    /\ \E g \in RoomIds : Unregistered(g)

C10_TerminatedNotSubscribed ==
    \A g \in RoomIds :
        active_connections[g] # NoObj =>
            \A s \in Sessions :
                InList(lists[active_connections[g]], s) => ~Terminated(s)

\* The subscriber list registered under the game_id of s.
RoomList(s) == lists[active_connections[game_id[s]]]

\* C11: a subscriber to which the delivery of a broadcast failed has been
\* removed from the room's subscriber list by the time the fan-out is over.
C11_FailedRemoved ==
    \A s \in Sessions :
        (Live(s) /\ ~fanout[s].active) =>
            \A c \in fanout[s].failed : ~InList(RoomList(s), c)

\* C12: after a delivery of its broadcast failed the submitter is still in
\* its loop and subscribed, the move it applied is still the last one of the
\* room unless another was applied since, and once the fan-out is over every
\* subscriber that stayed through it has been sent to.
C12_FailureContained ==
    \A s \in Sessions :
        (Live(s) /\ fanout[s].failed # {}) =>
            /\ Subscribed(s)
            /\ \E i \in 1..Len(accepted[board[s]]) :
                  message[s] = Fen(Replay(SubSeq(accepted[board[s]], 1, i)))
            /\ (~fanout[s].active) =>
                  fanout[s].through \subseteq Range(fanout[s].sent)

\* C13: while a fan-out is held up by a send to a stalled connection, which
\* will not return, every other subscriber that has been subscribed all
\* through it has already been sent the broadcast.
C13_StallDoesNotStarve ==
    \A s \in Sessions :
        (pc[s] = "bcast" /\ conn[s] \in stalled) =>
            (fanout[s].through \ stalled) \subseteq Range(fanout[s].sent)

\* C14: a session whose move has been applied and whose broadcast is waiting
\* for a send to another session's connection can take its next text.
C14_LoopNotBlockedByOthers ==
    \A s \in Sessions :
        (pc[s] = "bcast" /\ conn[s] # s /\ open[s] /\ nsubmits < MaxSubmits)
            => ENABLED (\E d \in RawMoves : Receive(s, d))

\* C15: sessions connected under the same game_id, however their connects
\* were interleaved, are subscribers of one list and hold one board, the one
\* registered under that id; one game is registered per id.
C15_OneRoomPerId ==
    \A s, t \in Sessions :
        (Live(s) /\ Live(t) /\ game_id[s] = game_id[t]) =>
            /\ board[s] = board[t]
            /\ board[s] = active_games[game_id[s]]
            /\ InList(RoomList(s), s) /\ InList(RoomList(s), t)
            /\ \A g \in RoomIds : active_games[g] = board[s] => g = game_id[s]

\* Two sessions have connected to an id that was not registered, neither initial
\* send has returned yet, and no move has been applied.
C15_Witness ==
    /\ pc[1] = "sendInit" /\ pc[2] = "sendInit"
    /\ game_id[1] = game_id[2]
    /\ vacated = {} /\ rejoined = {}
    /\ accepted[board[1]] = <<>>
    /\ RoomList(1) = <<1, 2>>

\* C16: every session that has joined and has not left is on the subscriber
\* list now registered under its game_id, and the board it checks and pushes
\* on is the board now registered under that id.
C16_JoinNotDropped == \A s \in Sessions : Live(s) => Subscribed(s)

\* A session has joined under an id whose room had been emptied and torn
\* down by the leave of another session, and is registered.
C16_Witness ==
    \E s, t \in Sessions :
        /\ s \in rejoined /\ Live(s) /\ Subscribed(s)
        /\ pc[t] = "closed"

\* This step is s leaving connect for game_id g, whatever the outcome.
Connects(s, g) ==
    /\ pc[s] = "idle"
    /\ pc'[s] # "idle"
    /\ game_id'[s] = g

\* C17: a connect never ends in an error, whatever the id and whoever is
\* subscribed already: the session is registered as a subscriber and suspended
\* in its initial send; and when the id was not registered the room is created
\* with the starting position, the session is its only subscriber and the one
\* text it has been handed is the FEN of the starting position.
C17_ConnectCreates ==
    [][\A s \in Sessions, g \in RoomIds :
          Connects(s, g) =>
              /\ pc'[s] = "sendInit"
              /\ Subscribed(s)'
              /\ active_games[g] = NoObj =>
                    /\ boards'[active_games'[g]] = StartingPosition
                    /\ lists'[active_connections'[g]] = <<s>>
                    /\ inbox'[s] = <<Fen(StartingPosition)>>]_vars

\* A session has connected to an id that was not registered, while the other
\* room is registered and has been played in.
C17_Witness ==
    \E s \in Sessions :
        /\ pc[s] = "sendInit"
        /\ RoomList(s) = <<s>>
        /\ inbox[s] = <<Fen(StartingPosition)>>
        /\ \E g \in RoomIds :
              /\ g # game_id[s]
              /\ Registered(g)
              /\ accepted[active_games[g]] # <<>>

\* C18: a session that connects to a registered id is handed, before any
\* other text, the FEN of the room's position at that step, which carries
\* every move applied to it so far.
C18_InitialIsCurrent ==
    [][\A s \in Sessions, g \in RoomIds :
          (Connects(s, g) /\ active_games[g] # NoObj) =>
              /\ inbox'[s] = <<Fen(boards[active_games[g]])>>
              /\ Head(inbox'[s]) = Fen(Replay(accepted[active_games[g]]))]_vars

\* A session that joined a room in which a move had been applied has been
\* handed the position after that move as its first text.
C18_Witness ==
    \E s \in Sessions :
        /\ Live(s)
        /\ s \notin rejoined
        /\ inbox[s] # <<>>
        /\ IsFen(Head(inbox[s]))
        /\ FenPly(Head(inbox[s])) >= 1
        /\ accepted[board[s]] # <<>>

\* This step is taken by session s or by its client.
Acts(s) == <<pc[s], iter[s], open[s]>>' # <<pc[s], iter[s], open[s]>>

\* The game_id the step of s is about.
ActRoom(s) == IF game_id[s] # NoObj THEN game_id[s] ELSE game_id'[s]

\* What is registered under h: the board, its position, the subscriber list,
\* and what the connections of the sessions connected under h have been handed.
RoomState(h) ==
    <<active_games[h], active_connections[h],
      IF active_games[h] = NoObj THEN <<>> ELSE <<boards[active_games[h]]>>,
      IF active_connections[h] = NoObj THEN <<>> ELSE lists[active_connections[h]],
      [t \in Sessions |-> IF game_id[t] = h THEN inbox[t] ELSE <<>>]>>

\* C19: a step of a session (connect, disconnect, accepted or rejected
\* submission, a send of a broadcast) or of its client leaves every room but
\* the session's own as it was: same board and position, same subscriber list,
\* and nothing handed to a connection of the other room.
C19_OtherRoomsUnchanged ==
    [][\A s \in Sessions :
          Acts(s) =>
              \A h \in RoomIds \ {ActRoom(s)} : RoomState(h)' = RoomState(h)]_vars

\* A move has been applied and broadcast in one room while another room has
\* a subscriber that was handed nothing but its initial text.
C19_Witness ==
    \E s, t \in Sessions :
        /\ Live(s) /\ Live(t)
        /\ game_id[s] # game_id[t]
        /\ pc[s] = "recv"
        /\ accepted[board[s]] # <<>>
        /\ Len(inbox[s]) >= 2
        /\ accepted[board[t]] = <<>>
        /\ inbox[t] = <<Fen(StartingPosition)>>

\* This step is the disconnect of s.
Leaves(s) == Live(s) /\ pc'[s] = "closed"

\* C20: the disconnect of a session whose room has another handle on its list
\* takes only that session's handle off: the registry and every position are
\* as before, every other handle is still on the list, every other session
\* that was subscribed still is, and no connection is handed anything.
C20_LeaveRemovesOnlySelf ==
    [][\A s \in Sessions :
          (Leaves(s) /\ \E t \in Sessions \ {s} : InList(RoomList(s), t)) =>
              LET lid == active_connections[game_id[s]]
              IN /\ active_games' = active_games
                 /\ active_connections' = active_connections
                 /\ boards' = boards
                 /\ ~InList(lists'[lid], s)
                 /\ \A o \in ObjIds \ {lid} : lists'[o] = lists[o]
                 /\ \A t \in Sessions \ {s} :
                       /\ InList(lists[lid], t) => InList(lists'[lid], t)
                       /\ Subscribed(t) => Subscribed(t)'
                       /\ inbox'[t] = inbox[t]]_vars

\* A session that was sent a broadcast of its room has disconnected, and the
\* session that broadcast is still subscribed, alone on the list, with the
\* move it applied still on the board.
C20_Witness ==
    \E s, t \in Sessions :
        /\ s # t
        /\ pc[s] = "closed"
        /\ s \in Range(fanout[t].sent)
        /\ Live(t) /\ Subscribed(t)
        /\ RoomList(t) = <<t>>
        /\ accepted[board[t]] # <<>>

\* The places where the handle of s stands on the registered subscriber lists.
Places(s) ==
    {p \in RoomIds \X (1..NumSessions) :
        /\ active_connections[p[1]] # NoObj
        /\ p[2] <= Len(lists[active_connections[p[1]]])
        /\ lists[active_connections[p[1]]][p[2]] = s}

\* C21: a connection handle stands on the subscriber list of at most one
\* room, and at most once on that list; no registered list is longer than
\* the number of handles.
C21_HandleInOneRoomOnce ==
    /\ \A s \in Sessions : Cardinality(Places(s)) <= 1
    /\ \A g \in RoomIds :
          active_connections[g] # NoObj =>
              Len(lists[active_connections[g]]) <= NumSessions

\* Both rooms are registered, each with its own list, and every handle stands
\* on exactly one of them.
C21_Witness ==
    /\ \A g \in RoomIds : Registered(g)
    /\ \A s \in Sessions : Cardinality(Places(s)) = 1
    /\ active_connections[1] # active_connections[2]

\* C22: a submitted text is accepted exactly when it parses and the move is
\* legal in the position registered under the session's game_id before the
\* step, whichever session submits it and whatever it submitted before.
C22_AcceptanceByPositionOnly ==
    [][\A s \in Sessions :
          Submits(s) =>
              LET d == data'[s]
                  b == active_games[game_id[s]]
              IN (accepted'[b] # accepted[b]) <=>
                    (Parses(d) /\ IsLegal(boards[b], FromUci(d)))]_vars

\* One session, the only one that ever connected, has had a move for White
\* and then a move for Black accepted.
C22_Witness ==
    /\ pc[2] = "idle"
    /\ Live(1)
    /\ accepted[board[1]] = <<FromUci("e2e4"), FromUci("e7e5")>>

\* The position registered under g is what its accepted moves, in order,
\* make of the starting position.
C23_Inv ==
    \A g \in RoomIds :
        active_games[g] # NoObj =>
            boards[active_games[g]] = Replay(accepted[active_games[g]])

\* A step that changes the position of the board registered under g is the
\* submission, by a session of g, of a move legal in the position before the
\* step, and it leaves the position that one move makes of it.
C23_Step ==
    \A g \in RoomIds :
        LET b == active_games[g]
        IN (b # NoObj /\ active_games'[g] = b /\ boards'[b] # boards[b]) =>
              \E s \in Sessions :
                  /\ Submits(s)
                  /\ game_id[s] = g
                  /\ Parses(data'[s])
                  /\ IsLegal(boards[b], FromUci(data'[s]))
                  /\ boards'[b] = Push(boards[b], FromUci(data'[s]))
                  /\ accepted'[b] = Append(accepted[b], FromUci(data'[s]))

\* C23: the position of a room changes only in a step that applies a
\* submitted move legal in the position just before it (connects, disconnects,
\* rejected submissions and sends leave it alone), and it is always the
\* starting position with the room's accepted moves applied in order.
C23_PositionByMovesOnly == []C23_Inv /\ [][C23_Step]_vars

\* After two accepted moves, a rejected submission, the sends of the
\* broadcasts and the leave of the other session, the room holds the position
\* of its two moves.
C23_Witness ==
    \E s, t \in Sessions :
        /\ pc[t] = "closed"
        /\ pc[s] = "recv"
        /\ Len(accepted[board[s]]) = 2
        /\ nsubmits = 3
        /\ \E i \in 1..Len(inbox[s]) : IsError(inbox[s][i])
        /\ boards[active_games[game_id[s]]] = Replay(accepted[board[s]])

\* C24: the text of a broadcast is the FEN of the position its move left,
\* fixed when the move is applied: a step of a session that applies a move
\* sets the text to that FEN, every step of a session in its fan-out keeps
\* the text, and either step hands a connection nothing but that text,
\* whatever the board has become meanwhile.
C24_BroadcastTextFixed ==
    [][\A s \in Sessions :
          /\ (Submits(s) /\ pc'[s] = "bcast") =>
                LET b == board[s]
                IN /\ message'[s] = Fen(Push(boards[b], FromUci(data'[s])))
                   /\ \A c \in Sessions :
                         inbox'[c] \in {inbox[c], Append(inbox[c], message'[s])}
          /\ (Acts(s) /\ pc[s] = "bcast") =>
                /\ message'[s] = message[s]
                /\ \A c \in Sessions :
                      inbox'[c] \in {inbox[c], Append(inbox[c], message[s])}]_vars

\* A fan-out has just handed its text to a connection that had already been
\* handed the position of a later move, and the board is no longer in the
\* position of the text.
C24_Witness ==
    \E s, c \in Sessions :
        /\ pc[s] = "bcast"
        /\ conn[s] = c
        /\ message[s] # Fen(boards[board[s]])
        /\ Len(inbox[c]) >= 2
        /\ Last(inbox[c]) = message[s]
        /\ IsFen(inbox[c][Len(inbox[c]) - 1])
        /\ FenPly(inbox[c][Len(inbox[c]) - 1]) > FenPly(message[s])

\* No connection stands twice in the sequence q.
NoRepeat(q) == \A i, j \in 1..Len(q) : q[i] = q[j] => i = j

\* C25: a fan-out begins in exactly the steps in which a session has a move
\* accepted, one per move; while it is in progress a step adds at most one
\* connection to those it has sent to, and it never sends to the same
\* connection twice, whatever connects and disconnects do to the list.
C25_OneFanoutNoRepeat ==
    /\ [](\A s \in Sessions : NoRepeat(fanout[s].sent))
    /\ [][\A s \in Sessions :
             /\ (Submits(s) /\ accepted'[board[s]] # accepted[board[s]])
                   <=> (~fanout[s].active /\ fanout'[s].active)
             /\ (~fanout[s].active /\ fanout'[s].active) =>
                   /\ Len(accepted'[board[s]]) = Len(accepted[board[s]]) + 1
                   /\ Len(fanout'[s].sent) = 1
             /\ (fanout[s].active /\ Live(s)') =>
                   \/ fanout'[s].sent = fanout[s].sent
                   \/ \E c \in Sessions \ Range(fanout[s].sent) :
                         fanout'[s].sent = Append(fanout[s].sent, c)]_vars

\* A fan-out is over that has sent to its submitter and then to a session
\* that connected while it was in progress (its initial text already carried
\* the move), each once.
C25_Witness ==
    \E s, t \in Sessions :
        /\ s # t
        /\ pc[s] = "recv"
        /\ fanout[s].sent = <<s, t>>
        /\ accepted[board[s]] = <<FromUci("e2e4")>>
        /\ Live(t) /\ board[t] = board[s]
        /\ Len(inbox[t]) = 2
        /\ FenPly(inbox[t][1]) = 1
        /\ inbox[t][2] = message[s]

\* C26: no step starts a send to a handle that disconnect has taken off its
\* room's list: the connection a fan-out step sends to next, whether the
\* fan-out began before the removal or after it, is never one of a session
\* that has disconnected.
C26_NoSendAfterRemoval ==
    [][\A s \in Sessions :
          (fanout'[s].sent # fanout[s].sent /\ fanout'[s].sent # <<>>) =>
              /\ pc[Last(fanout'[s].sent)] # "closed"
              /\ Last(fanout'[s].sent) \notin fanout[s].left
              /\ InList(RoomList(s), Last(fanout'[s].sent))]_vars

\* A fan-out is over during which another session of the room disconnected
\* before it was reached: only the submitter was sent to.
C26_Witness ==
    \E s, t \in Sessions :
        /\ s # t
        /\ pc[t] = "closed"
        /\ pc[s] = "recv"
        /\ ~fanout[s].active
        /\ fanout[s].left = {t}
        /\ fanout[s].sent = <<s>>

\* This step is a call of get_random_puzzle.
SelectsPuzzle == recent_puzzles' # recent_puzzles

\* ... that reset recent_puzzles.
ResetsRecent == SelectsPuzzle /\ Len(recent_puzzles') <= Len(recent_puzzles)

\* C27: the id a call selects was not selected since the last reset of
\* recent_puzzles unless the call resets it, a call resets it only when every
\* id of PUZZLE_IDS has been selected since the reset before, and
\* recent_puzzles, which holds the ids selected since the last reset, each
\* once, is never longer than PUZZLE_IDS nor than MAX_RECENT.
C27_NoRepeatUntilAllShown ==
    /\ [](/\ Len(recent_puzzles) <= Cardinality(PUZZLE_IDS)
          /\ Len(recent_puzzles) <= MAX_RECENT
          /\ NoRepeat(recent_puzzles)
          /\ Range(recent_puzzles) = shown)
    /\ [][SelectsPuzzle =>
             /\ ResetsRecent => (shown = PUZZLE_IDS /\ was_reset')
             /\ ~ResetsRecent => puzzle_id' \notin shown
             /\ puzzle_id' \in shown']_vars

\* Every id had been selected, each once, and the call after that has reset
\* recent_puzzles and selected an id again.
C27_Witness ==
    /\ was_reset
    /\ recent_puzzles = <<puzzle_id>>
    /\ shown = {puzzle_id}

\* This step is a successful upload_pgn.
Uploads == uploads' = uploads + 1

\* C28: after a successful upload_pgn the store holds the session it created
\* and no session created more than an hour before, and its cleanup removed
\* no session created an hour before or less.
C28_UploadKeepsFresh ==
    [][Uploads =>
          /\ [session_id |-> uploads', created_at |-> now] \in pgn_sessions'
          /\ \A session \in pgn_sessions' :
                session.created_at + TicksPerHour >= now
          /\ \A session \in pgn_sessions :
                session.created_at + TicksPerHour >= now =>
                    session \in pgn_sessions']_vars

\* An upload has just removed a session created more than an hour before and
\* kept one created exactly an hour before, along with its own.
C28_Witness ==
    /\ expired # {}
    /\ \E session \in pgn_sessions : session.created_at + TicksPerHour = now
    /\ \E session \in pgn_sessions :
          session.session_id = uploads /\ session.created_at = now

====
